---- MODULE Spec2Model ----
(***************************************************************************)
(* Model of the laser dashboard.                                           *)
(*   Spec:      the beam-ablation physics engine,                          *)
(*              calculate_interactive_simulation and                       *)
(*              calculate_goal_seeker_recipe                               *)
(*              (modules/beam_profile_visualizer.py), and the dose         *)
(*              explorer's power computation                               *)
(*              (modules/dose_target_seeker.py);                           *)
(*   SweepSpec: calculate_tradeoffs and the verdict of the sensitivity     *)
(*              analyzer's page (modules/sensitivity_analyzer.py);         *)
(*   UiSpec:    the page router (app.py) and the session state of the      *)
(*              simulator page, one action per script run or click;        *)
(*   RouterSpec: the router alone, started with any value of app_mode,     *)
(*              with the fairness of a pending rerun.                      *)
(*                                                                         *)
(* Number representation.  The code works in IEEE doubles.  The model      *)
(* carries two kinds of numbers:                                           *)
(*   - lengths (beam/target diameter, thickness, alpha_inv, radii) are     *)
(*     integers in hundredths of a micrometre;                             *)
(*   - energies, fluences, powers and doses span many decades and only     *)
(*     ever meet *, /, exp and log in the code, so they are carried the    *)
(*     way a floating-point number carries them: by their natural          *)
(*     logarithm, in fixed point (1e-4 neper), together with the IEEE      *)
(*     special values 0, +inf and NaN ("G" values below);                  *)
(*   - a per-pulse depth is alpha_inv * log(ratio), i.e. hundredths of a   *)
(*     micrometre times 1e-4: an integer in units of 1e-6 micrometre.      *)
(* In this representation exp and log move a value between the two kinds   *)
(* without loss; what is rounded is the logarithm of an input (LnInt), a    *)
(* quotient (FixDiv), the square root (ISqrt) and the arctangent (AtanDeg). *)
(* The rounding of the doubles themselves (1e-16 relative) is not modelled; *)
(* overflow to +inf, underflow to 0 and NaN are.                            *)
(***************************************************************************)
EXTENDS Integers, Sequences, FiniteSets, TLC

VARIABLES op, simIn, simOut, prevIn, prevOut, goalIn, goalOut, rtIn, rtOut,
          doseIn, doseOut

\* the results the dose explorer's page displays in its current run
VARIABLES doseShown

\* the sensitivity analyzer: the parameter record and result of
\* calculate_tradeoffs, the widget values of its page, the values read at
\* the selected spot and the verdict shown
VARIABLES fixed_params, tradeoff_data, analyzer, live, verdict

\* the pages: Streamlit's session state, the values of the goal seeker's
\* input widgets, the position of the running script (pc), the interaction
\* that started the run (event), what the results canvas of the simulator
\* page shows, and the page and module the dispatcher rendered
VARIABLES session_state, goal_widgets, pc, event, canvas, dispatched

engineVars == <<simIn, simOut, prevIn, prevOut, goalIn, goalOut, rtIn, rtOut,
                doseIn, doseOut, doseShown>>

sweepVars == <<fixed_params, tradeoff_data, analyzer, live, verdict>>

uiVars == <<session_state, goal_widgets, pc, event, canvas, dispatched>>

vars == <<op, engineVars, sweepVars, uiVars>>

----------------------------------------------------------------------------
(* Fixed-point arithmetic                                                  *)

\* resolution of a logarithm: 1e-4 neper
LogScale == 100 * 100

\* lengths and widget values are carried in hundredths
Centi == 10 * 10

Abs(x) == IF x < 0 THEN -x ELSE x

Max2(a, b) == IF a >= b THEN a ELSE b

\* floor(n * LogScale / m) for n >= 0, m > 0, by decimal long division
\* (never forms n * LogScale, which would leave the 32-bit integers)
FixDiv(n, m) ==
  LET r0 == n % m
      q1 == (r0 * 10) \div m
      r1 == (r0 * 10) % m
      q2 == (r1 * 10) \div m
      r2 == (r1 * 10) % m
      q3 == (r2 * 10) \div m
      r3 == (r2 * 10) % m
      q4 == (r3 * 10) \div m
  IN  (n \div m) * LogScale + q1 * 1000 + q2 * 100 + q3 * 10 + q4

\* ceil(a / b) for a >= 0, b > 0
CeilDiv(a, b) == (a + b - 1) \div b

RECURSIVE SqrtSearch(_, _, _)
SqrtSearch(n, lo, hi) ==
  IF lo >= hi THEN lo
  ELSE LET mid == (lo + hi + 1) \div 2
       IN  IF mid * mid <= n THEN SqrtSearch(n, mid, hi)
           ELSE SqrtSearch(n, lo, mid - 1)

\* floor(sqrt(n)), n >= 0
ISqrt(n) == SqrtSearch(n, 0, 46340)

\* round(1e4 * ln n) for n = 1..128
LnTab ==
  <<  0, 6931, 10986, 13863, 16094, 17918, 19459, 20794,
      21972, 23026, 23979, 24849, 25649, 26391, 27081, 27726,
      28332, 28904, 29444, 29957, 30445, 30910, 31355, 31781,
      32189, 32581, 32958, 33322, 33673, 34012, 34340, 34657,
      34965, 35264, 35553, 35835, 36109, 36376, 36636, 36889,
      37136, 37377, 37612, 37842, 38067, 38286, 38501, 38712,
      38918, 39120, 39318, 39512, 39703, 39890, 40073, 40254,
      40431, 40604, 40775, 40943, 41109, 41271, 41431, 41589,
      41744, 41897, 42047, 42195, 42341, 42485, 42627, 42767,
      42905, 43041, 43175, 43307, 43438, 43567, 43694, 43820,
      43944, 44067, 44188, 44308, 44427, 44543, 44659, 44773,
      44886, 44998, 45109, 45218, 45326, 45433, 45539, 45643,
      45747, 45850, 45951, 46052, 46151, 46250, 46347, 46444,
      46540, 46634, 46728, 46821, 46913, 47005, 47095, 47185,
      47274, 47362, 47449, 47536, 47622, 47707, 47791, 47875,
      47958, 48040, 48122, 48203, 48283, 48363, 48442, 48520 >>

\* 1e4 * ln n for any integer n >= 1: the table, halving an even argument,
\* and ln n = ln(n-1) + ln(1 + 1/(n-1)) ~ ln(n-1) + 1/(n-1) for an odd one
\* beyond the table (the neglected term is below 1e-4)
RECURSIVE LnInt(_)
LnInt(n) ==
  IF n <= Len(LnTab) THEN LnTab[n]
  ELSE IF n % 2 = 0 THEN LnTab[2] + LnInt(n \div 2)
  ELSE LnInt(n - 1) + LogScale \div (n - 1)

\* 1e4 * ln(pi)
LnPi == 11447

\* 1e4 * ln of the largest finite double: a product or exp above it is +inf
LnMaxFloat == 7097827

\* 1e4 * ln of the smallest positive double: a product or exp below it is 0
LnMinFloat == -7444401

----------------------------------------------------------------------------
(* IEEE values carried by their logarithm ("G" values)                     *)

GPos(l) == [k |-> "pos", ln |-> l]
GZero == [k |-> "zero", ln |-> 0]
GInf == [k |-> "inf", ln |-> 0]
GNaN == [k |-> "nan", ln |-> 0]

\* overflow to +inf and underflow to 0
GNorm(l) ==
  IF l > LnMaxFloat THEN GInf
  ELSE IF l < LnMinFloat THEN GZero
  ELSE GPos(l)

GMul(a, b) ==
  IF a.k = "nan" \/ b.k = "nan" THEN GNaN
  ELSE IF a.k = "zero" THEN (IF b.k = "inf" THEN GNaN ELSE GZero)
  ELSE IF b.k = "zero" THEN (IF a.k = "inf" THEN GNaN ELSE GZero)
  ELSE IF a.k = "inf" \/ b.k = "inf" THEN GInf
  ELSE GNorm(a.ln + b.ln)

GDiv(a, b) ==
  IF a.k = "nan" \/ b.k = "nan" THEN GNaN
  ELSE IF b.k = "zero" THEN (IF a.k = "zero" THEN GNaN ELSE GInf)
  ELSE IF b.k = "inf" THEN (IF a.k = "inf" THEN GNaN ELSE GZero)
  ELSE IF a.k = "zero" THEN GZero
  ELSE IF a.k = "inf" THEN GInf
  ELSE GNorm(a.ln - b.ln)

\* a > b on doubles: false as soon as one side is NaN
GGt(a, b) ==
  CASE a.k = "nan" \/ b.k = "nan" -> FALSE
    [] a.k = "zero" -> FALSE
    [] a.k = "inf" -> b.k # "inf"
    [] OTHER -> b.k = "zero" \/ (b.k = "pos" /\ a.ln > b.ln)

GFinite(a) == a.k \in {"zero", "pos"}

\* the double nearest to n/100, n >= 0 (a widget value with two decimals)
GOfHundredths(n) == IF n = 0 THEN GZero ELSE GPos(LnInt(n) - LnInt(Centi))

\* the positive integer n as a double
GOfInt(n) == IF n = 0 THEN GZero ELSE GPos(LnInt(n))

GPi == GPos(LnPi)

----------------------------------------------------------------------------
(* Plain doubles that may be non-finite ("R" values): value v in the unit   *)
(* of the quantity when k = "fin"                                          *)

RFin(x) == [k |-> "fin", v |-> x]
RInf == [k |-> "inf", v |-> 0]
RNegInf == [k |-> "ninf", v |-> 0]
RNaN == [k |-> "nan", v |-> 0]

\* np.exp of a double given in 1e-4 units
GExp(x) ==
  CASE x.k = "nan" -> GNaN
    [] x.k = "inf" -> GInf
    [] x.k = "ninf" -> GZero
    [] OTHER -> GNorm(x.v)

\* np.log of a G value, in 1e-4 units
GLog(a) ==
  CASE a.k = "nan" -> RNaN
    [] a.k = "inf" -> RInf
    [] a.k = "zero" -> RNegInf
    [] OTHER -> RFin(a.ln)

\* scalar * double
RScale(c, x) ==
  CASE x.k = "nan" -> RNaN
    [] x.k = "fin" -> RFin(c * x.v)
    [] c = 0 -> RNaN
    [] c > 0 -> x
    [] OTHER -> IF x.k = "inf" THEN RNegInf ELSE RInf

\* x > 0 on doubles
RPositive(x) == x.k = "inf" \/ (x.k = "fin" /\ x.v > 0)

----------------------------------------------------------------------------
(* utils.py: the unit conversions the modules import                       *)

\* UM_TO_CM = 1e-4 and UJ_TO_J = 1e-6, as powers of ten
UmToCmExp == -4
UjToJExp == -6

UM_TO_CM == GPos(UmToCmExp * LnInt(10))
UJ_TO_J == GPos(UjToJExp * LnInt(10))

\* (w_um * UM_TO_CM)**2 for a length w in hundredths of a micrometre
SquareCm(w) ==
  LET w_cm == GMul(GOfHundredths(Abs(w)), UM_TO_CM)
  IN  GMul(w_cm, w_cm)

----------------------------------------------------------------------------
(* calculate_interactive_simulation                                        *)

\* number of radial samples of np.linspace
NumSamples == 501

\* a numpy array holds its elements: each is computed once, when the array
\* is built
Array(f) == f @@ <<>>

Samples == 0 .. (NumSamples - 1)

\* np.linspace(start, stop, num)[i]
Linspace(start, stop, num, i) == start + (i * (stop - start)) \div (num - 1)

w0_um(p) == p.beam_diameter_um \div 2

r_um(p, i) ==
  Linspace(-((p.beam_diameter_um * 3) \div 2), (p.beam_diameter_um * 3) \div 2,
           NumSamples, i)

pulse_energy_j(p) == GMul(p.pulse_energy_uJ, UJ_TO_J)

\* peak fluence at beam centre; 0 when w0_um <= 0
peak_fluence_j_cm2(p) ==
  IF p.beam_profile = "Gaussian"
  THEN IF w0_um(p) > 0
       THEN GDiv(GMul(GOfInt(2), pulse_energy_j(p)), GMul(GPi, SquareCm(w0_um(p))))
       ELSE GZero
  ELSE IF w0_um(p) > 0
       THEN GDiv(pulse_energy_j(p), GMul(GPi, SquareCm(w0_um(p))))
       ELSE GZero

\* -2 * r**2 / w0**2 as numpy divides: 0/0 is NaN, x/0 is -inf
GaussExponent(r, w0) ==
  IF w0 = 0 THEN (IF r = 0 THEN RNaN ELSE RNegInf)
  ELSE RFin(-FixDiv(2 * r * r, w0 * w0))

\* fluence at sample i, given the peak fluence
fluence_at(p, peak, i) ==
  IF p.beam_profile = "Gaussian"
  THEN GMul(peak, GExp(GaussExponent(r_um(p, i), w0_um(p))))
  ELSE IF Abs(r_um(p, i)) <= w0_um(p) THEN peak ELSE GZero

fluence_profile(p) ==
  LET peak == peak_fluence_j_cm2(p)
  IN  [i \in Samples |-> fluence_at(p, peak, i)]

\* depth_of without the ablation mask: the logarithmic law applied to every
\* sample with a positive fluence
depth_of_unmasked(p, f) ==
  IF f.k = "pos"
  THEN p.alpha_inv * GLog(GDiv(f, p.ablation_threshold_j_cm2)).v
  ELSE 0

\* ablation_mask and depth_profile_um (1e-6 um): alpha_inv * log(F/F_th)
\* where F > F_th, else 0
depth_of(p, f) ==
  IF GGt(f, p.ablation_threshold_j_cm2)
  THEN p.alpha_inv * GLog(GDiv(f, p.ablation_threshold_j_cm2)).v
  ELSE 0

depth_profile_um(p, fl) == [i \in Samples |-> depth_of(p, fl[i])]

\* GaussTop with the factor 2 under the root left out
GaussTopNoFactor(w0, log_term) == (w0 * ISqrt(log_term * LogScale)) \div LogScale

\* np.sqrt(2 * w0_um**2 * log_term), log_term in 1e-4 units
GaussTop(w0, log_term) == (w0 * ISqrt(2 * log_term * LogScale)) \div LogScale

top_diameter_um(p, fl) ==
  IF \E i \in Samples : GGt(fl[i], p.ablation_threshold_j_cm2)
  THEN IF p.beam_profile = "Gaussian"
       THEN LET log_term == GLog(GDiv(peak_fluence_j_cm2(p), p.ablation_threshold_j_cm2))
            IN  IF RPositive(log_term) THEN GaussTop(w0_um(p), log_term.v) ELSE 0
       ELSE IF GGt(peak_fluence_j_cm2(p), p.ablation_threshold_j_cm2)
            THEN p.beam_diameter_um ELSE 0
  ELSE 0

\* f[lo..hi].max(), by halving the range
RECURSIVE MaxOver(_, _, _)
MaxOver(f, lo, hi) ==
  IF lo = hi THEN f[lo]
  ELSE LET mid == (lo + hi) \div 2
       IN  Max2(MaxOver(f, lo, mid), MaxOver(f, mid + 1, hi))

\* material thickness in the unit of a depth (1e-6 um)
ThicknessDepth(p) == p.material_thickness * LogScale

\* through_at with the shot count multiplied onto the thickness
through_at_wrong_side(p, depth) == depth >= p.number_of_shots * ThicknessDepth(p)

\* through_mask[i]: number_of_shots * depth >= material_thickness
through_at(p, depth) == p.number_of_shots * depth >= ThicknessDepth(p)

\* np.where(through_mask)[0][0] within lo..hi, or -1 (by halving the range)
RECURSIVE FirstThrough(_, _, _, _)
FirstThrough(p, dp, lo, hi) ==
  IF lo = hi THEN (IF through_at(p, dp[lo]) THEN lo ELSE -1)
  ELSE LET mid == (lo + hi) \div 2
           a == FirstThrough(p, dp, lo, mid)
       IN  IF a >= 0 THEN a ELSE FirstThrough(p, dp, mid + 1, hi)

\* np.where(through_mask)[0][-1] within lo..hi, or -1
RECURSIVE LastThrough(_, _, _, _)
LastThrough(p, dp, lo, hi) ==
  IF lo = hi THEN (IF through_at(p, dp[lo]) THEN lo ELSE -1)
  ELSE LET mid == (lo + hi) \div 2
           b == LastThrough(p, dp, mid + 1, hi)
       IN  IF b >= 0 THEN b ELSE LastThrough(p, dp, lo, mid)

\* separation of the outermost fully penetrated samples, 0 if there is none
bottom_diameter_um(p, dp) ==
  IF \E i \in Samples : through_at(p, dp[i])
  THEN r_um(p, LastThrough(p, dp, 0, NumSamples - 1))
       - r_um(p, FirstThrough(p, dp, 0, NumSamples - 1))
  ELSE 0

\* np.clip(number_of_shots * depth, 0, material_thickness)
final_via_at(p, depth) ==
  LET total == p.number_of_shots * depth
  IN  IF total < 0 THEN 0
      ELSE IF total > ThicknessDepth(p) THEN ThicknessDepth(p) ELSE total

\* arctan(y / x) in hundredths of a degree for 0 <= y <= x, x > 0:
\* atan z ~ z * (45 + 15.64 * (1 - z)) degrees (within 0.25 degree)
AtanUnit(y, x) ==
  LET z == FixDiv(y, x)
  IN  (z * (4500 + (1564 * (LogScale - z)) \div LogScale)) \div LogScale

\* np.rad2deg(np.arctan(y / x)), x > 0, in hundredths of a degree
AtanDeg(y, x) ==
  LET a == Abs(y)
      t == IF a <= x THEN AtanUnit(a, x) ELSE 9000 - AtanUnit(x, a)
  IN  IF y < 0 THEN -t ELSE t

\* y / x in 1e-4 units, x > 0
Ratio(y, x) == IF y < 0 THEN -FixDiv(-y, x) ELSE FixDiv(y, x)

\* taper_angle_deg without the bottom_diameter_um > 0 guard
taper_angle_deg_unguarded(p, top, bottom) ==
  AtanDeg(top - bottom, 2 * p.material_thickness)

\* taper of the wall: radius_diff / material_thickness with
\* radius_diff = (top - bottom) / 2
taper_angle_deg(p, top, bottom) ==
  IF bottom > 0 THEN AtanDeg(top - bottom, 2 * p.material_thickness) ELSE 9000

taper_ratio(p, top, bottom) ==
  IF bottom > 0 THEN RFin(Ratio(top - bottom, 2 * p.material_thickness)) ELSE RInf

calculate_interactive_simulation(p) ==
  LET fl == Array(fluence_profile(p))
      dp == Array(depth_profile_um(p, fl))
      top == top_diameter_um(p, fl)
      bottom == bottom_diameter_um(p, dp)
  IN  [ peak_fluence_j_cm2 |-> peak_fluence_j_cm2(p),
        max_depth_per_pulse |-> MaxOver(dp, 0, NumSamples - 1),
        top_diameter_um |-> top,
        bottom_diameter_um |-> bottom,
        taper_angle_deg |-> taper_angle_deg(p, top, bottom),
        taper_ratio |-> taper_ratio(p, top, bottom),
        fluence_profile |-> fl,
        final_via_profile |-> [i \in Samples |-> final_via_at(p, dp[i])],
        w0_um |-> w0_um(p) ]

----------------------------------------------------------------------------
(* calculate_goal_seeker_recipe                                            *)

\* (d_cm**2) / (2 * w0_cm**2) in 1e-4 units, w0 # 0
SeekExponent(d, w0) == FixDiv(d * d, 2 * w0 * w0)

\* required_peak_fluence guarded by w0_cm != 0 instead of w0_cm > 0
required_peak_fluence_nonzero_guard(p) ==
  LET w0 == p.beam_diameter_um \div 2
  IN  IF w0 # 0
      THEN GMul(p.ablation_threshold_j_cm2,
                GExp(RFin(SeekExponent(p.target_diameter_um, w0))))
      ELSE GZero

required_peak_fluence(p) ==
  LET w0 == p.beam_diameter_um \div 2
  IN  IF w0 > 0
      THEN GMul(p.ablation_threshold_j_cm2,
                GExp(RFin(SeekExponent(p.target_diameter_um, w0))))
      ELSE GZero

\* seek_pulse_energy_uJ without the division by 2
seek_pulse_energy_uJ_no_half(p) ==
  LET w0 == p.beam_diameter_um \div 2
  IN  GDiv(GMul(GMul(required_peak_fluence(p), GPi), SquareCm(w0)), UJ_TO_J)

\* (required_peak_fluence * pi * w0_cm**2) / 2.0 / UJ_TO_J
seek_pulse_energy_uJ(p) ==
  LET w0 == p.beam_diameter_um \div 2
      required_energy_J ==
        GDiv(GMul(GMul(required_peak_fluence(p), GPi), SquareCm(w0)), GOfInt(2))
  IN  GDiv(required_energy_J, UJ_TO_J)

\* alpha_inv * log(F / F_th) if F > F_th else 0   (1e-6 um)
seek_max_depth_per_pulse(p) ==
  IF GGt(required_peak_fluence(p), p.ablation_threshold_j_cm2)
  THEN RScale(p.alpha_inv,
              GLog(GDiv(required_peak_fluence(p), p.ablation_threshold_j_cm2)))
  ELSE RFin(0)

\* int(np.ceil(material_thickness / max_depth_per_pulse)), depth > 0
seek_min_shots(p, depth) ==
  IF depth.k = "inf" THEN 0
  ELSE CeilDiv(p.material_thickness * LogScale, depth.v)

\* seek_number_of_shots with the overkill margin added on both branches
seek_number_of_shots_always_overkill(p) ==
  LET depth == seek_max_depth_per_pulse(p)
  IN  (IF RPositive(depth) THEN seek_min_shots(p, depth) ELSE 0) + p.overkill_shots

seek_number_of_shots(p) ==
  LET depth == seek_max_depth_per_pulse(p)
  IN  IF RPositive(depth)
      THEN seek_min_shots(p, depth) + p.overkill_shots
      ELSE 0

calculate_goal_seeker_recipe(p) ==
  [ pulse_energy_uJ |-> seek_pulse_energy_uJ(p),
    number_of_shots |-> seek_number_of_shots(p) ]

----------------------------------------------------------------------------
(* Dose Target Recipe Explorer (dose_target_seeker.render)                 *)

\* area_cm2 = pi * ((beam_diameter_um / 2.0) * UM_TO_CM)**2
area_cm2(p) == GMul(GPi, SquareCm(p.beam_diameter_um \div 2))

\* required_peak_fluence = target_dose / shots
dose_peak_fluence(p, shots) == GDiv(p.target_dose, GOfInt(shots))

\* required_pulse_energy_J with the division by 2 left out
dose_pulse_energy_J_no_half(p, shots) ==
  GMul(dose_peak_fluence(p, shots), area_cm2(p))

\* required_pulse_energy_J = (required_peak_fluence * area_cm2) / 2.0
dose_pulse_energy_J(p, shots) ==
  GDiv(GMul(dose_peak_fluence(p, shots), area_cm2(p)), GOfInt(2))

\* required_avg_power_mW = required_pulse_energy_J * (rep_rate_khz * 1000) * 1000
required_avg_power_mW(p, shots) ==
  GMul(GMul(dose_pulse_energy_J(p, shots), GMul(p.rep_rate_khz, GOfInt(1000))),
       GOfInt(1000))

\* one row of the results table
dose_row(p, shots) ==
  LET power == required_avg_power_mW(p, shots)
  IN  [ shots |-> shots,
        power_mW |-> power,
        peak_fluence |-> dose_peak_fluence(p, shots),
        pulse_energy_uJ |-> GDiv(power, p.rep_rate_khz),
        achievable |-> ~GGt(power, p.max_power_mW) ]

\* dose_table over np.arange(min_shots, max_shots): the last row left out
dose_table_exclusive_end(p) ==
  [i \in 1 .. (p.max_shots - p.min_shots) |-> dose_row(p, p.min_shots + i - 1)]

\* the DataFrame: one row per element of np.arange(min_shots, max_shots + 1)
dose_table(p) ==
  [i \in 1 .. (p.max_shots - p.min_shots + 1) |-> dose_row(p, p.min_shots + i - 1)]

\* least n in lo..hi with ln n >= l, given that ln hi >= l
RECURSIVE CeilSearch(_, _, _)
CeilSearch(l, lo, hi) ==
  IF lo >= hi THEN hi
  ELSE LET mid == (lo + hi) \div 2
       IN  IF LnInt(mid) >= l THEN CeilSearch(l, lo, mid)
           ELSE CeilSearch(l, mid + 1, hi)

\* ceil of a finite G value, as an integer
CeilOfG(g) ==
  IF g.k = "zero" THEN 0
  ELSE IF g.ln <= 0 THEN 1
  ELSE CeilSearch(g.ln, 1, 2 ^ (g.ln \div LnTab[2] + 1))

\* solve_shots of the specification: the least shot count whose required
\* average power does not exceed the available power, i.e.
\* ceil(target_dose * area_cm2 * rep_rate / (2 * power))
solve_shots(p, power_mW) ==
  CeilOfG(GDiv(GMul(GMul(p.target_dose, area_cm2(p)),
                    GMul(GMul(p.rep_rate_khz, GOfInt(1000)), GOfInt(1000))),
               GMul(GOfInt(2), power_mW)))

\* validation of the specification's solver: target dose and repetition rate
\* are positive
solve_valid(p) == GGt(p.target_dose, GZero) /\ GGt(p.rep_rate_khz, GZero)

\* solve_power of the specification: the explorer's required average power
solve_power(p, shots) == required_avg_power_mW(p, shots)

----------------------------------------------------------------------------
(* calculate_tradeoffs (modules/sensitivity_analyzer.py)                   *)

\* number of spot diameters of np.linspace
NumSpots == 200

Spots == 0 .. (NumSpots - 1)

\* the largest finite double, which np.nan_to_num puts in the place of +inf,
\* and its negative
RHuge == [k |-> "huge", v |-> 0]
RNegHuge == [k |-> "neghuge", v |-> 0]

\* a <= b on doubles: false as soon as one side is NaN
GLe(a, b) == a.k # "nan" /\ b.k # "nan" /\ ~GGt(a, b)

\* spot_diameters[i]
spot_diameters(p, i) == Linspace(p.min_spot, p.max_spot, NumSpots, i)

\* (d_top_cm**2) / (2 * w0s_cm**2) with w0s = spot / 2, in 1e-4 units
tradeoff_exponent(p, spot) ==
  IF spot = 0
  THEN (IF p.target_diameter_um = 0 THEN RNaN ELSE RInf)
  ELSE RFin(FixDiv(2 * p.target_diameter_um * p.target_diameter_um, spot * spot))

tradeoff_required_peak_fluence(p, spot) ==
  GMul(p.ablation_threshold, GExp(tradeoff_exponent(p, spot)))

fluence_ratio(p, spot) ==
  GDiv(tradeoff_required_peak_fluence(p, spot), p.ablation_threshold)

\* penetration_depth * np.log(fluence_ratio)   (1e-6 um)
depth_per_pulse(p, spot) == RScale(p.penetration_depth, GLog(fluence_ratio(p, spot)))

\* np.ceil(material_thickness / depth_per_pulse) for a thickness > 0
tradeoff_min_shots(p, depth) ==
  CASE depth.k = "nan" -> RNaN
    [] depth.k = "inf" -> RFin(0)
    [] depth.k = "ninf" -> RFin(0)
    [] depth.v = 0 -> RInf
    [] depth.v > 0 -> RFin(CeilDiv(p.material_thickness * LogScale, depth.v))
    [] OTHER -> RFin(-((p.material_thickness * LogScale) \div (-depth.v)))

\* total_shots = np.ceil(material_thickness / depth_per_pulse) + overkill_shots
total_shots(p, spot) ==
  LET n == tradeoff_min_shots(p, depth_per_pulse(p, spot))
  IN  IF n.k = "fin" THEN RFin(n.v + p.overkill_shots) ELSE n

\* material_thickness / (total_shots * penetration_depth), in 1e-4 units
bottom_exponent(p, n) ==
  CASE n.k = "nan" -> RNaN
    [] n.k = "inf" -> RFin(0)
    [] n.k = "ninf" -> RFin(0)
    [] n.v = 0 -> RInf
    [] n.v > 0 -> RFin(FixDiv(p.material_thickness, n.v * p.penetration_depth))
    [] OTHER -> RFin(-FixDiv(p.material_thickness, (-n.v) * p.penetration_depth))

fluence_at_bottom(p, spot) ==
  GMul(p.ablation_threshold, GExp(bottom_exponent(p, total_shots(p, spot))))

\* np.log(np.maximum(1, required_peak_fluence / fluence_at_bottom))
log_term_bottom(p, spot) ==
  LET q == GDiv(tradeoff_required_peak_fluence(p, spot), fluence_at_bottom(p, spot))
  IN  IF q.k = "nan" THEN RNaN
      ELSE IF GGt(q, GOfInt(1)) THEN GLog(q)
      ELSE RFin(0)

\* np.sqrt(2 * w0s_um**2 * log_term) = spot * sqrt(2 * log_term) / 2 for a
\* finite log_term >= 0 in 1e-4 units (a coarser root above 10 nepers keeps
\* the radicand within the integers)
tradeoff_sqrt(spot, log_term) ==
  IF log_term <= 10 * LogScale
  THEN (spot * ISqrt(2 * log_term * LogScale)) \div (2 * LogScale)
  ELSE (spot * ISqrt(2 * log_term)) \div (2 * Centi)

\* np.nan_to_num(np.sqrt(...)): NaN becomes 0 and +inf the largest double
tradeoff_bottom_diameter_um(p, spot) ==
  LET l == log_term_bottom(p, spot)
  IN  CASE l.k = "nan" -> RFin(0)
        [] l.k = "inf" -> (IF spot = 0 THEN RFin(0) ELSE RHuge)
        [] OTHER -> RFin(tradeoff_sqrt(spot, l.v))

\* process_window = target_diameter_um - bottom_diameter_um
process_window(p, bottom) ==
  IF bottom.k = "huge" THEN RNegHuge ELSE RFin(p.target_diameter_um - bottom.v)

\* np.rad2deg(np.arctan((target - bottom) / (2 * material_thickness))), in
\* hundredths of a degree
taper_angle(p, bottom) ==
  IF bottom.k = "huge" THEN -9000
  ELSE AtanDeg(p.target_diameter_um - bottom.v, 2 * p.material_thickness)

calculate_tradeoffs(p) ==
  LET bottoms == Array([i \in Spots |->
                     tradeoff_bottom_diameter_um(p, spot_diameters(p, i))])
  IN  [ spot_diameters |-> [i \in Spots |-> spot_diameters(p, i)],
        fluence_ratios |-> [i \in Spots |-> fluence_ratio(p, spot_diameters(p, i))],
        taper_angles |-> [i \in Spots |-> taper_angle(p, bottoms[i])],
        process_windows |-> [i \in Spots |-> process_window(p, bottoms[i])] ]

----------------------------------------------------------------------------
(* The page of the sensitivity analyzer (sensitivity_analyzer.render)      *)

\* taper_ranges 'good' and 'average' (hundredths of a degree),
\* energy_ranges 'average', and the blooming ratio 0.98 in hundredths
TAPER_IDEAL_THRESHOLD == 1000
TAPER_REJECT_THRESHOLD == 1300
INEFFICIENT_FLUENCE_RATIO == GOfInt(10)
BLOOMING_THRESHOLD_RATIO == 98

\* overkill_shots of the page's fixed_params
AnalyzerOverkill == 10

\* fixed_params as the page builds it: the spot range is 0.8 to 2.0 times
\* the target diameter
analyzer_fixed_params(w) ==
  [ target_diameter_um |-> w.target_diameter_um,
    material_thickness |-> w.material_thickness,
    ablation_threshold |-> w.ablation_threshold,
    penetration_depth |-> w.penetration_depth,
    min_spot |-> (w.target_diameter_um * 8) \div 10,
    max_spot |-> w.target_diameter_um * 2,
    overkill_shots |-> AnalyzerOverkill ]

\* np.argmin(np.abs(spot_diameters - selected_spot)): the first index of
\* least distance
argmin_spot(data, selected) ==
  CHOOSE i \in Spots :
    /\ \A j \in Spots :
         Abs(data.spot_diameters[i] - selected) <= Abs(data.spot_diameters[j] - selected)
    /\ \A j \in Spots :
         j < i => Abs(data.spot_diameters[j] - selected) > Abs(data.spot_diameters[i] - selected)

live_values(data, selected) ==
  LET idx == argmin_spot(data, selected)
  IN  [ idx |-> idx,
        live_fluence_ratio |-> data.fluence_ratios[idx],
        live_taper |-> data.taper_angles[idx],
        live_window |-> data.process_windows[idx] ]

\* final_verdict with the blooming check made before the taper check
final_verdict_blooming_first(w, lv) ==
  IF w.selected_spot * Centi < w.target_diameter_um * BLOOMING_THRESHOLD_RATIO
  THEN "HIGH RISK"
  ELSE IF lv.live_taper > TAPER_REJECT_THRESHOLD THEN "REJECT"
  ELSE IF lv.live_taper <= TAPER_IDEAL_THRESHOLD
          /\ GLe(lv.live_fluence_ratio, INEFFICIENT_FLUENCE_RATIO)
  THEN "IDEAL PROCESS"
  ELSE IF lv.live_taper <= TAPER_IDEAL_THRESHOLD
          /\ GGt(lv.live_fluence_ratio, INEFFICIENT_FLUENCE_RATIO)
  THEN "STABLE BUT INEFFICIENT"
  ELSE "GOOD COMPROMISE"

\* the if / elif chain of the final verdict
final_verdict(w, lv) ==
  IF lv.live_taper > TAPER_REJECT_THRESHOLD THEN "REJECT"
  ELSE IF w.selected_spot * Centi < w.target_diameter_um * BLOOMING_THRESHOLD_RATIO
  THEN "HIGH RISK"
  ELSE IF lv.live_taper <= TAPER_IDEAL_THRESHOLD
          /\ GLe(lv.live_fluence_ratio, INEFFICIENT_FLUENCE_RATIO)
  THEN "IDEAL PROCESS"
  ELSE IF lv.live_taper <= TAPER_IDEAL_THRESHOLD
          /\ GGt(lv.live_fluence_ratio, INEFFICIENT_FLUENCE_RATIO)
  THEN "STABLE BUT INEFFICIENT"
  ELSE "GOOD COMPROMISE"

----------------------------------------------------------------------------
(* Inputs of the engine calls                                              *)

\* largest shot count and overkill margin tried
MaxShots == 4
MaxOverkill == 2

BeamProfiles == {"Gaussian", "Top-Hat"}

\* beam spot diameters of a simulation (hundredths of um): 0, 5 and 30 um
SimBeamDiameters == {0, 500, 3000}

\* pulse energies (hundredths of uJ): 0.01, 1 and 10 uJ
PulseEnergies == {1, 100, 1000}

\* ablation thresholds (hundredths of J/cm2): 0.18 and 5 J/cm2
Thresholds == {18, 500}

\* penetration depths (hundredths of um): 0.30 and 5 um
AlphaInvs == {30, 500}

\* material thicknesses (hundredths of um): 1, 20.18 and 50 um
Thicknesses == {100, 2018, 5000}

SimInputs ==
  [ beam_profile : BeamProfiles,
    beam_diameter_um : SimBeamDiameters,
    pulse_energy_uJ : {GOfHundredths(e) : e \in PulseEnergies},
    ablation_threshold_j_cm2 : {GOfHundredths(f) : f \in Thresholds},
    alpha_inv : AlphaInvs,
    number_of_shots : 1 .. MaxShots,
    material_thickness : Thicknesses ]

\* target top diameters (hundredths of um): 0, 25 and 100 um
TargetDiameters == {0, 2500, 10000}

\* beam spot diameters offered to the goal seeker: -5, 0, 5, 30 um
SeekBeamDiameters == {-500, 0, 500, 3000}

GoalInputs ==
  [ target_diameter_um : TargetDiameters,
    material_thickness : Thicknesses,
    overkill_shots : 0 .. MaxOverkill,
    beam_diameter_um : SeekBeamDiameters,
    ablation_threshold_j_cm2 : {GOfHundredths(f) : f \in Thresholds},
    alpha_inv : AlphaInvs ]

\* largest shot count offered to the dose explorer
MaxDoseShots == 4

\* target doses (hundredths of J/cm2): 10 and 175 J/cm2
TargetDoses == {1000, 17500}

\* repetition rates (hundredths of kHz): 1 and 50 kHz
RepRates == {100, 5000}

\* available powers (hundredths of mW): 1 mW and 1 W
MaxPowers == {100, 100000}

DoseInputs ==
  [ target_dose : {GOfHundredths(x) : x \in TargetDoses},
    beam_diameter_um : {500, 3000},
    rep_rate_khz : {GOfHundredths(x) : x \in RepRates},
    max_power_mW : {GOfHundredths(x) : x \in MaxPowers},
    min_shots : 1 .. MaxDoseShots,
    max_shots : 1 .. MaxDoseShots ]

\* values below the minima of the widgets (a target dose of 0, a repetition
\* rate of 0), which the calculation itself is free to receive
DoseUncheckedInputs ==
  { p \in [ target_dose : {GZero, GOfHundredths(17500)},
            beam_diameter_um : {3000},
            rep_rate_khz : {GZero, GOfHundredths(5000)},
            max_power_mW : {GOfHundredths(100000)},
            min_shots : {1},
            max_shots : {2} ] : ~solve_valid(p) }

\* no call made / no result held
None == [none |-> TRUE]

----------------------------------------------------------------------------
(* The calls                                                               *)

\* the engine holds no state: a run starts with the parameter record of one
\* call in hand, either a simulation's or a goal seeker's
\* nothing of the sensitivity analyzer is in hand
SweepIdle ==
  /\ fixed_params = None /\ tradeoff_data = None
  /\ analyzer = None /\ live = None /\ verdict = None

\* no engine call is in hand
EngineIdle ==
  /\ simIn = None /\ simOut = None /\ prevIn = None /\ prevOut = None
  /\ goalIn = None /\ goalOut = None /\ rtIn = None /\ rtOut = None
  /\ doseIn = None /\ doseOut = None /\ doseShown = None

\* no page has run
UiIdle ==
  /\ session_state = None /\ goal_widgets = None
  /\ pc = "none" /\ event = "none" /\ canvas = "none" /\ dispatched = None

Init ==
  /\ SweepIdle
  /\ UiIdle
  /\ simOut = None
  /\ prevIn = None /\ prevOut = None
  /\ goalOut = None
  /\ rtIn = None /\ rtOut = None
  /\ doseOut = None /\ doseShown = None
  /\ \/ op = "sim_pending" /\ simIn \in SimInputs /\ goalIn = None /\ doseIn = None
     \/ op = "seek_pending" /\ goalIn \in GoalInputs /\ simIn = None /\ doseIn = None
     \/ /\ op = "dose_pending"
        /\ doseIn \in DoseInputs \cup DoseUncheckedInputs
        /\ simIn = None /\ goalIn = None

\* the scalar fields of a simulation result
Geometry(res) ==
  [ peak_fluence_j_cm2 |-> res.peak_fluence_j_cm2,
    max_depth_per_pulse |-> res.max_depth_per_pulse,
    top_diameter_um |-> res.top_diameter_um,
    bottom_diameter_um |-> res.bottom_diameter_um,
    taper_angle_deg |-> res.taper_angle_deg,
    taper_ratio |-> res.taper_ratio ]

\* a call of calculate_interactive_simulation
Simulate ==
  /\ op = "sim_pending"
  /\ op' = "simulate"
  /\ simOut' = calculate_interactive_simulation(simIn)
  /\ UNCHANGED <<simIn, prevIn, prevOut, goalIn, goalOut, rtIn, rtOut, doseIn, doseOut>>
  /\ UNCHANGED <<doseShown, sweepVars, uiVars>>

\* the same simulation again with one more shot
MoreShots ==
  /\ op \in {"simulate", "more_shots"}
  /\ simIn.number_of_shots < MaxShots
  /\ op' = "more_shots"
  /\ prevIn' = simIn /\ prevOut' = Geometry(simOut)
  /\ simIn' = [simIn EXCEPT !.number_of_shots = @ + 1]
  /\ simOut' = calculate_interactive_simulation(simIn')
  /\ UNCHANGED <<goalIn, goalOut, rtIn, rtOut, doseIn, doseOut>>
  /\ UNCHANGED <<doseShown, sweepVars, uiVars>>

\* a call of calculate_goal_seeker_recipe
Seek ==
  /\ op = "seek_pending"
  /\ op' = "seek"
  /\ goalOut' = calculate_goal_seeker_recipe(goalIn)
  /\ UNCHANGED <<simIn, simOut, prevIn, prevOut, goalIn, rtIn, rtOut, doseIn, doseOut>>
  /\ UNCHANGED <<doseShown, sweepVars, uiVars>>

\* round trip, first half: the top diameter of a Gaussian simulation is
\* given to the goal seeker as its target (same beam diameter and material)
RoundTripSeek ==
  /\ op = "simulate"
  /\ simIn.beam_profile = "Gaussian"
  /\ simIn.beam_diameter_um > 0
  /\ goalIn' = [ target_diameter_um |-> simOut.top_diameter_um,
                 material_thickness |-> simIn.material_thickness,
                 overkill_shots |-> 0,
                 beam_diameter_um |-> simIn.beam_diameter_um,
                 ablation_threshold_j_cm2 |-> simIn.ablation_threshold_j_cm2,
                 alpha_inv |-> simIn.alpha_inv ]
  /\ goalOut' = calculate_goal_seeker_recipe(goalIn')
  /\ op' = "rt_seek"
  /\ rtIn' = simIn /\ rtOut' = Geometry(simOut)
  /\ simIn' = None /\ simOut' = None
  /\ UNCHANGED <<prevIn, prevOut, doseIn, doseOut>>
  /\ UNCHANGED <<doseShown, sweepVars, uiVars>>

\* round trip, second half: a simulation with the pulse energy of the recipe
RoundTripSimulate ==
  /\ op = "rt_seek"
  /\ simIn' = [rtIn EXCEPT !.pulse_energy_uJ = goalOut.pulse_energy_uJ]
  /\ simOut' = calculate_interactive_simulation(simIn')
  /\ op' = "rt_sim"
  /\ UNCHANGED <<prevIn, prevOut, goalIn, goalOut, rtIn, rtOut, doseIn, doseOut>>
  /\ UNCHANGED <<doseShown, sweepVars, uiVars>>

\* a click whose error branch does not return: the stored results are
\* displayed below the error
explore_click_falls_through(p, stored) ==
  IF p.min_shots >= p.max_shots
  THEN [error |-> TRUE, stored |-> stored, shown |-> stored]
  ELSE LET results == [dataframe |-> dose_table(p)]
       IN  [error |-> FALSE, stored |-> results, shown |-> results]

\* a run of the page started by a click on "Explore Possible Recipes", with
\* inputs p and the results stored so far: the error and the return when
\* min_shots >= max_shots, else the table is computed, stored and displayed
explore_click(p, stored) ==
  IF p.min_shots >= p.max_shots
  THEN [error |-> TRUE, stored |-> stored, shown |-> None]
  ELSE LET results == [dataframe |-> dose_table(p)]
       IN  [error |-> FALSE, stored |-> results, shown |-> results]

\* a click on "Explore Possible Recipes": an error and nothing stored when
\* min_shots >= max_shots, else the table is computed and stored
DoseExplore ==
  /\ op = "dose_pending"
  /\ LET run == explore_click(doseIn, doseOut)
     IN  /\ op' = IF run.error THEN "dose_error" ELSE "dose"
         /\ doseOut' = run.stored
         /\ doseShown' = run.shown
  /\ UNCHANGED <<simIn, simOut, prevIn, prevOut, goalIn, goalOut, rtIn, rtOut, doseIn>>
  /\ UNCHANGED <<sweepVars, uiVars>>

\* the shot range or the target dose is edited after a click: the script
\* reruns without a click and displays the stored results, if any
DoseEditInputs ==
  /\ op \in {"dose", "dose_error"}
  /\ \E lo \in 1 .. MaxDoseShots, hi \in 1 .. MaxDoseShots, d \in TargetDoses :
       /\ doseIn' = [doseIn EXCEPT !.min_shots = lo, !.max_shots = hi,
                                   !.target_dose = GOfHundredths(d)]
       /\ doseIn' # doseIn
  /\ op' = "dose_pending"
  /\ doseShown' = doseOut
  /\ UNCHANGED <<simIn, simOut, prevIn, prevOut, goalIn, goalOut, rtIn, rtOut, doseOut>>
  /\ UNCHANGED <<sweepVars, uiVars>>

\* round trip from a shot count: the power a row requires, given back to
\* solve_shots
DoseShotsFromPower ==
  /\ op = "dose"
  /\ solve_valid(doseIn)
  /\ \E i \in DOMAIN doseOut.dataframe :
       /\ rtIn' = [shots |-> doseOut.dataframe[i].shots]
       /\ rtOut' = [power_mW |-> doseOut.dataframe[i].power_mW,
                    shots |-> solve_shots(doseIn, doseOut.dataframe[i].power_mW)]
  /\ op' = "dose_rt_shots"
  /\ UNCHANGED <<simIn, simOut, prevIn, prevOut, goalIn, goalOut, doseIn, doseOut>>
  /\ UNCHANGED <<doseShown, sweepVars, uiVars>>

\* round trip from a power: the shot count solve_shots gives for the
\* available power, given back to solve_power
DosePowerFromShots ==
  /\ op = "dose"
  /\ solve_valid(doseIn)
  /\ rtIn' = [power_mW |-> doseIn.max_power_mW]
  /\ LET n == solve_shots(doseIn, doseIn.max_power_mW)
     IN  rtOut' = [shots |-> n, power_mW |-> solve_power(doseIn, n)]
  /\ op' = "dose_rt_power"
  /\ UNCHANGED <<simIn, simOut, prevIn, prevOut, goalIn, goalOut, doseIn, doseOut>>
  /\ UNCHANGED <<doseShown, sweepVars, uiVars>>

Next ==
  \/ Simulate
  \/ MoreShots
  \/ Seek
  \/ RoundTripSeek
  \/ RoundTripSimulate
  \/ DoseExplore
  \/ DoseEditInputs
  \/ DoseShotsFromPower
  \/ DosePowerFromShots

Spec == Init /\ [][Next]_vars

----------------------------------------------------------------------------
(* The sensitivity analyzer: calls of calculate_tradeoffs and runs of the  *)
(* page                                                                    *)

\* parameter records of a direct call: target 50 or 100 um over the spot
\* ranges 5..50 um and 40..100 um
TradeoffInputs ==
  [ target_diameter_um : {5000, 10000},
    material_thickness : {100, 5000},
    ablation_threshold : {GOfHundredths(100)},
    penetration_depth : {1, 50},
    min_spot : {500, 4000},
    max_spot : {5000, 10000},
    overkill_shots : {0, AnalyzerOverkill} ]

\* number of steps of the spot slider that are tried
SliderSteps == 6

\* slider positions between min_spot and max_spot for a target diameter
SliderPositions(target) ==
  LET lo == (target * 8) \div 10
      hi == target * 2
  IN  {lo + (k * (hi - lo)) \div SliderSteps : k \in 0 .. SliderSteps}

\* widget values of the page: target 1, 5 or 50 um, thickness 1 or 80 um,
\* threshold 1 J/cm2, penetration depth 0.01 or 0.5 um
AnalyzerWidgets ==
  UNION { [ target_diameter_um : {target},
            material_thickness : {100, 8000},
            ablation_threshold : {GOfHundredths(100)},
            penetration_depth : {1, 50},
            selected_spot : SliderPositions(target) ] : target \in {100, 500, 5000} }

SweepInit ==
  /\ EngineIdle
  /\ UiIdle
  /\ tradeoff_data = None /\ live = None /\ verdict = None
  /\ \/ op = "tradeoffs_pending" /\ fixed_params \in TradeoffInputs /\ analyzer = None
     \/ op = "analyzer_pending" /\ analyzer \in AnalyzerWidgets /\ fixed_params = None

\* a call of calculate_tradeoffs
Tradeoffs ==
  /\ op = "tradeoffs_pending"
  /\ op' = "tradeoffs"
  /\ tradeoff_data' = calculate_tradeoffs(fixed_params)
  /\ UNCHANGED <<fixed_params, analyzer, live, verdict>>
  /\ UNCHANGED <<engineVars, uiVars>>

\* a run of the page: fixed_params from the widgets, the sweep, the values
\* at the sample nearest to the selected spot, and the verdict
RenderAnalyzer ==
  /\ op = "analyzer_pending"
  /\ op' = "analyzer"
  /\ fixed_params' = analyzer_fixed_params(analyzer)
  /\ tradeoff_data' = calculate_tradeoffs(fixed_params')
  /\ live' = live_values(tradeoff_data', analyzer.selected_spot)
  /\ verdict' = final_verdict(analyzer, live')
  /\ UNCHANGED analyzer
  /\ UNCHANGED <<engineVars, uiVars>>

\* the slider is moved: the page runs again on the same fixed_params (the
\* sweep comes from the cache)
MoveSlider ==
  /\ op = "analyzer"
  /\ \E spot \in SliderPositions(analyzer.target_diameter_um) :
       /\ spot # analyzer.selected_spot
       /\ analyzer' = [analyzer EXCEPT !.selected_spot = spot]
  /\ live' = live_values(tradeoff_data, analyzer'.selected_spot)
  /\ verdict' = final_verdict(analyzer', live')
  /\ UNCHANGED <<op, fixed_params, tradeoff_data>>
  /\ UNCHANGED <<engineVars, uiVars>>

SweepNext ==
  \/ Tradeoffs
  \/ RenderAnalyzer
  \/ MoveSlider

SweepSpec == SweepInit /\ [][SweepNext]_vars

----------------------------------------------------------------------------
(* The page router (app.py) and the simulator page                         *)
(* (beam_profile_visualizer.render)                                        *)

\* TOOL_CATEGORIES: category -> tool name -> module
TOOL_CATEGORIES ==
  [ c \in {"Core Workflow", "Advanced Analysis", "Fundamental Calculators"} |->
      CASE c = "Core Workflow" ->
             ("Material Analyzer" :> "material_analyzer") @@
             ("Process Recommender" :> "process_recommender") @@
             ("Microvia Process Simulator" :> "beam_profile_visualizer") @@
             ("Report Generator" :> "report_generator")
        [] c = "Advanced Analysis" ->
             ("Liu Plot Analyzer" :> "liu_plot_analyzer") @@
             ("Thermal Effects Calculator" :> "thermal_effects_calculator")
        [] OTHER ->
             ("Dose Target Seeker" :> "dose_target_seeker") @@
             ("Fluence (Energy Density)" :> "fluence_calculator") @@
             ("Pulse Energy" :> "pulse_energy_calculator") @@
             ("Mask Finder" :> "mask_finder") ]

\* the buttons of the sidebar: the home anchor, one per tool, the reference
SidebarButtons ==
  {"Home", "Scientific Reference"}
    \cup UNION {DOMAIN TOOL_CATEGORIES[c] : c \in DOMAIN TOOL_CATEGORIES}

\* selected_module that looks the page up in the first category only
selected_module_first_category_only(mode) ==
  IF mode = "Home" THEN "home"
  ELSE IF mode = "Scientific Reference" THEN "documentation"
  ELSE IF mode \in DOMAIN TOOL_CATEGORIES["Core Workflow"]
  THEN TOOL_CATEGORIES["Core Workflow"][mode]
  ELSE "None"

\* the dispatcher's lookup: the module of app_mode, "None" if there is none
selected_module(mode) ==
  IF mode = "Home" THEN "home"
  ELSE IF mode = "Scientific Reference" THEN "documentation"
  ELSE IF \E c \in DOMAIN TOOL_CATEGORIES : mode \in DOMAIN TOOL_CATEGORIES[c]
  THEN LET c == CHOOSE c \in DOMAIN TOOL_CATEGORIES : mode \in DOMAIN TOOL_CATEGORIES[c]
       IN  TOOL_CATEGORIES[c][mode]
  ELSE "None"

\* the session state of a new session: no key is set (a switch_to_simulator
\* that is not set reads as False)
EmptySession ==
  [ app_mode |-> "absent",
    simulator_mode |-> "absent",
    switch_to_simulator |-> FALSE,
    goal_seeker_results |-> None,
    sim_params |-> None,
    master |-> None,
    report_data |-> None ]

SimulatorModes == {"Interactive Simulator", "Recipe Goal Seeker"}

\* defaults of the master state variables: 10.00 uJ, 30.01 um, 0.18 J/cm2,
\* 0.30 um, 75 shots, 50.0 um
master_defaults ==
  [ pulse_energy |-> GOfHundredths(1000),
    beam_diameter |-> 3001,
    ablation_threshold |-> GOfHundredths(18),
    alpha_inv |-> 30,
    number_of_shots |-> 75,
    material_thickness |-> 5000 ]

\* defaults of the goal seeker's inputs: 25.0 um, 40.0 um, 10 shots,
\* 30.0 um, 0.9 J/cm2, 0.8 um
goal_widget_defaults ==
  [ target_diameter_um |-> 2500,
    material_thickness |-> 4000,
    overkill_shots |-> 10,
    beam_diameter_um |-> 3000,
    ablation_threshold_j_cm2 |-> GOfHundredths(90),
    alpha_inv |-> 80 ]

\* values the goal seeker's inputs are edited to: the defaults with a beam
\* spot of 30 or 100 um
GoalWidgetValues ==
  {[goal_widget_defaults EXCEPT !.beam_diameter_um = d] : d \in {3000, 10000}}

\* values a simulator widget is moved to: 300 shots
SimulatorEdits == {[key |-> "number_of_shots", value |-> 300]}

\* consume_switch that switches the mode and leaves the flag set
consume_switch_keeps_flag(ss) ==
  IF ss.switch_to_simulator
  THEN [ss EXCEPT !.simulator_mode = "Interactive Simulator"]
  ELSE ss

\* the switch flag is consumed at the top of render_inputs
consume_switch(ss) ==
  IF ss.switch_to_simulator
  THEN [ss EXCEPT !.simulator_mode = "Interactive Simulator",
                  !.switch_to_simulator = FALSE]
  ELSE ss

\* the mode radio: the stored mode, "Interactive Simulator" when none is
\* stored
mode_radio(ss) ==
  [ss EXCEPT !.simulator_mode = IF @ = "absent" THEN "Interactive Simulator" ELSE @]

\* render_interactive_simulator_inputs: the master state variables are
\* initialised from sim_params, else from the defaults, when they are not set
render_interactive_simulator_inputs(ss) ==
  IF ss.master # None THEN ss
  ELSE [ss EXCEPT !.master = IF ss.sim_params # None THEN ss.sim_params
                             ELSE master_defaults]

\* render_inputs that leaves goal_seeker_results in place
render_inputs_keeps_results(ss) ==
  LET a == mode_radio(consume_switch(ss))
  IN  IF a.simulator_mode = "Interactive Simulator"
      THEN render_interactive_simulator_inputs(a)
      ELSE a

\* render_inputs on the session state
render_inputs(ss) ==
  LET a == mode_radio(consume_switch(ss))
  IN  IF a.simulator_mode = "Interactive Simulator"
      THEN render_interactive_simulator_inputs([a EXCEPT !.goal_seeker_results = None])
      ELSE a

\* the parameter record render_interactive_simulator_inputs returns
simulator_params(ss, profile) ==
  [ beam_profile |-> profile,
    beam_diameter_um |-> ss.master.beam_diameter,
    pulse_energy_uJ |-> ss.master.pulse_energy,
    ablation_threshold_j_cm2 |-> ss.master.ablation_threshold,
    alpha_inv |-> ss.master.alpha_inv,
    number_of_shots |-> ss.master.number_of_shots,
    material_thickness |-> ss.master.material_thickness ]

\* "Load this Recipe": sim_params, the switch flag and the master state
\* variables are written from the recipe and the current inputs p
load_recipe(ss, recipe, p) ==
  LET loaded == [ pulse_energy |-> recipe.pulse_energy_uJ,
                  beam_diameter |-> p.beam_diameter_um,
                  ablation_threshold |-> p.ablation_threshold_j_cm2,
                  alpha_inv |-> p.alpha_inv,
                  number_of_shots |-> recipe.number_of_shots,
                  material_thickness |-> p.material_thickness ]
  IN  [ss EXCEPT !.sim_params = loaded,
                 !.switch_to_simulator = TRUE,
                 !.master = loaded]

\* the event of a run started by st.rerun()
rerun_event(e) ==
  CASE e = "load" -> "rerun_load"
    [] e = "report" -> "rerun_report"
    [] e = "sidebar" -> "rerun_sidebar"
    [] OTHER -> e

\* the dispatcher's fallback that leaves app_mode as it found it
reset_app_mode_keeps(ss) == ss

\* the dispatcher's fallback when no module is found: app_mode is reset
reset_app_mode(ss) == [ss EXCEPT !.app_mode = "Home"]

\* the values of widgets that a run does not render: the framework may keep
\* them or drop them, and a dropped input shows its default again
Unrendered(gw) == {gw, goal_widget_defaults}

\* a script run of app.py from the top, on session state ss and goal seeker
\* inputs gw, started by event ev and without a sidebar click: app_mode is
\* initialised, the dispatcher looks the module up and renders it (the
\* simulator page up to the return of render_inputs), or resets app_mode and
\* reruns (the run that follows carries the event "reset").  A page other
\* than the simulator does not render the mode radio,
\* whose stored value the framework may then drop.
RunScript(ss, gw, ev) ==
  LET s0 == [ss EXCEPT !.app_mode = IF @ = "absent" THEN "Home" ELSE @]
      module == selected_module(s0.app_mode)
  IN  /\ event' = IF module = "None" THEN "reset" ELSE ev
      /\ UNCHANGED <<op, engineVars, sweepVars>>
      /\ IF module = "None"
         THEN /\ session_state' = reset_app_mode(s0)
              /\ goal_widgets' \in Unrendered(gw)
              /\ pc' = "rerun"
              /\ UNCHANGED <<canvas, dispatched>>
         ELSE /\ dispatched' = [page |-> s0.app_mode, module |-> module]
              /\ IF module = "beam_profile_visualizer"
                 THEN /\ session_state' = render_inputs(s0)
                      /\ IF render_inputs(s0).simulator_mode = "Recipe Goal Seeker"
                         THEN goal_widgets' = gw
                         ELSE goal_widgets' \in Unrendered(gw)
                      /\ pc' = "inputs_done"
                      /\ UNCHANGED canvas
                 ELSE /\ \E kept \in BOOLEAN :
                           session_state' =
                             IF kept THEN s0 ELSE [s0 EXCEPT !.simulator_mode = "absent"]
                      /\ goal_widgets' \in Unrendered(gw)
                      /\ pc' = "idle"
                      /\ canvas' = "none"

UiInit ==
  /\ EngineIdle
  /\ SweepIdle
  /\ op = "ui"
  /\ session_state = EmptySession
  /\ goal_widgets = goal_widget_defaults
  /\ pc = "rerun" /\ event = "none" /\ canvas = "none" /\ dispatched = None

\* the first run of a session, and the run st.rerun() starts
Rerun ==
  /\ pc = "rerun"
  /\ RunScript(session_state, goal_widgets, rerun_event(event))

\* a sidebar button is clicked: app_mode is set and the script reruns before
\* the dispatcher is reached
SidebarClick ==
  /\ pc = "idle"
  /\ \E page \in SidebarButtons :
       session_state' = [session_state EXCEPT !.app_mode = page]
  /\ event' = "sidebar"
  /\ pc' = "rerun"
  /\ UNCHANGED <<goal_widgets, canvas, dispatched>>
  /\ UNCHANGED <<op, engineVars, sweepVars>>

OnSimulatorPage == pc = "idle" /\ dispatched.module = "beam_profile_visualizer"

\* the mode radio is switched
SelectMode ==
  /\ OnSimulatorPage
  /\ \E m \in SimulatorModes :
       /\ m # session_state.simulator_mode
       /\ RunScript([session_state EXCEPT !.simulator_mode = m], goal_widgets, "mode")

\* an input of the goal seeker is edited
EditGoalInputs ==
  /\ OnSimulatorPage
  /\ canvas \in {"recipe", "info"}
  /\ \E w \in GoalWidgetValues :
       /\ w # goal_widgets
       /\ RunScript(session_state, w, "edit")

\* a widget of the simulator is moved: sync_widget copies its value to the
\* master state variable
EditSimulatorInputs ==
  /\ OnSimulatorPage
  /\ canvas = "simulation"
  /\ \E e \in SimulatorEdits :
       /\ session_state.master[e.key] # e.value
       /\ RunScript([session_state EXCEPT !.master[e.key] = e.value], goal_widgets, "edit")

\* "Generate Recipe" is clicked
ClickGenerate ==
  /\ OnSimulatorPage
  /\ canvas \in {"recipe", "info"}
  /\ RunScript(session_state, goal_widgets, "generate")

\* "Load this Recipe in the Interactive Simulator" is clicked
ClickLoad ==
  /\ OnSimulatorPage
  /\ canvas = "recipe"
  /\ RunScript(session_state, goal_widgets, "load")

\* "Prepare Report for this Simulation" is clicked
ClickReport ==
  /\ OnSimulatorPage
  /\ canvas = "simulation"
  /\ RunScript(session_state, goal_widgets, "report")

\* render_outputs, after render_inputs has returned.  In the simulator the
\* results are shown and a click on the report button stores report_data,
\* sets app_mode and reruns; in the goal seeker a click on "Generate Recipe"
\* stores the recipe of the current inputs, a stored recipe is shown with
\* the current inputs, and a click on the load button writes it to the
\* simulator and reruns.
RenderOutputs ==
  /\ pc = "inputs_done"
  /\ IF session_state.simulator_mode = "Interactive Simulator"
     THEN /\ canvas' = "simulation"
          /\ IF event = "report"
             THEN /\ \E profile \in BeamProfiles :
                       LET p == simulator_params(session_state, profile)
                           results == calculate_interactive_simulation(p)
                       IN  session_state' =
                             [session_state EXCEPT
                                !.report_data = [inputs |-> p, metrics |-> Geometry(results)],
                                !.app_mode = "Report Generator"]
                  /\ pc' = "rerun"
             ELSE /\ session_state' = session_state
                  /\ pc' = "idle"
     ELSE LET generated ==
                IF event = "generate"
                THEN [session_state EXCEPT
                        !.goal_seeker_results = calculate_goal_seeker_recipe(goal_widgets)]
                ELSE session_state
          IN  IF generated.goal_seeker_results # None
              THEN /\ canvas' = "recipe"
                   /\ IF event = "load"
                      THEN /\ session_state' =
                                load_recipe(generated, generated.goal_seeker_results,
                                            goal_widgets)
                           /\ pc' = "rerun"
                      ELSE /\ session_state' = generated
                           /\ pc' = "idle"
              ELSE /\ canvas' = "info"
                   /\ session_state' = generated
                   /\ pc' = "idle"
  /\ UNCHANGED <<goal_widgets, event, dispatched>>
  /\ UNCHANGED <<op, engineVars, sweepVars>>

UiNext ==
  \/ Rerun
  \/ SidebarClick
  \/ SelectMode
  \/ EditGoalInputs
  \/ EditSimulatorInputs
  \/ ClickGenerate
  \/ ClickLoad
  \/ ClickReport
  \/ RenderOutputs

UiSpec == UiInit /\ [][UiNext]_vars

\* values app_mode holds when a session's script starts in the router's own
\* specification: not set, or a name written by a page that is no key of
\* TOOL_CATEGORIES (the analyzer's page is not registered, and "home" is the
\* module's name, not the page's)
UnregisteredModes == {"Sensitivity Analyzer", "home", ""}

RouterInit ==
  /\ EngineIdle
  /\ SweepIdle
  /\ op = "ui"
  /\ \E mode \in {"absent"} \cup UnregisteredModes :
       session_state = [EmptySession EXCEPT !.app_mode = mode]
  /\ goal_widgets = goal_widget_defaults
  /\ pc = "rerun" /\ event = "none" /\ canvas = "none" /\ dispatched = None

\* the router's steps: script runs and sidebar clicks (the simulator page
\* finishes its run in render_outputs)
RouterNext ==
  \/ Rerun
  \/ SidebarClick
  \/ RenderOutputs

\* st.rerun() starts a new run of the script: a pending run is taken
RouterSpec == RouterInit /\ [][RouterNext]_vars /\ WF_vars(Rerun)

----------------------------------------------------------------------------
(* Properties of calculate_interactive_simulation                          *)

SimDone == op \in {"simulate", "more_shots", "rt_sim"}

\* sample i is fully penetrated: the clipped profile reaches the thickness
Penetrated(i) == simOut.final_via_profile[i] >= ThicknessDepth(simIn)

PenetratedSamples == {i \in Samples : Penetrated(i)}

\* C1: for a positive beam diameter the returned geometry satisfies
\* top_diameter_um >= bottom_diameter_um >= 0 and 0 <= taper_angle_deg <= 90
\* (angles in hundredths of a degree)
GeometryOrdered ==
  (SimDone /\ simIn.beam_diameter_um > 0) =>
    /\ simOut.top_diameter_um >= simOut.bottom_diameter_um
    /\ simOut.bottom_diameter_um >= 0
    /\ simOut.taper_angle_deg >= 0
    /\ simOut.taper_angle_deg <= 9000

\* a Gaussian via that is drilled through, narrower at the bottom
GeometryOrderedWitness ==
  /\ op = "simulate"
  /\ simIn.beam_profile = "Gaussian"
  /\ simOut.bottom_diameter_um > 0
  /\ simOut.top_diameter_um > simOut.bottom_diameter_um
  /\ simOut.taper_angle_deg > 0
  /\ simOut.taper_angle_deg < 9000

\* C2: with beam and material fixed, a larger shot count never gives a
\* smaller bottom_diameter_um
BottomMonotoneInShots ==
  op = "more_shots" =>
    /\ prevIn = [simIn EXCEPT !.number_of_shots = prevIn.number_of_shots]
    /\ prevIn.number_of_shots <= simIn.number_of_shots
    /\ prevOut.bottom_diameter_um <= simOut.bottom_diameter_um

\* one more shot opened the bottom wider
BottomMonotoneWitness ==
  /\ op = "more_shots"
  /\ prevOut.bottom_diameter_um > 0
  /\ prevOut.bottom_diameter_um < simOut.bottom_diameter_um

\* C3: Gaussian round trip: the top diameter of a simulation, given to the
\* goal seeker as target, yields a pulse energy whose simulation has the
\* same top diameter, within the rounding of the arithmetic (0.01 um)
RoundTripTop ==
  op = "rt_sim" =>
    Abs(simOut.top_diameter_um - rtOut.top_diameter_um) <= 1

\* a round trip through a via that ablates
RoundTripTopWitness ==
  /\ op = "rt_sim"
  /\ rtOut.top_diameter_um > 0
  /\ goalIn.target_diameter_um = rtOut.top_diameter_um
  /\ simIn.pulse_energy_uJ = goalOut.pulse_energy_uJ

\* C4 as stated: taper 90 and taper_ratio +inf exactly when no sampled
\* radius is fully penetrated
TaperSentinelIffNoSamplePenetrated ==
  SimDone =>
    ((simOut.taper_angle_deg = 9000 /\ simOut.taper_ratio = RInf)
       <=> PenetratedSamples = {})

\* C4, amended: taper 90 and taper_ratio +inf exactly when the bottom
\* diameter is 0, that is when no sampled radius or a single one (the
\* centre) is fully penetrated; with two or more penetrated samples the
\* angle is atan(((top - bottom)/2) / thickness), below 90, and the ratio
\* is finite
TaperSentinelIffBottomZero ==
  SimDone =>
    /\ (simOut.bottom_diameter_um = 0) <=> (Cardinality(PenetratedSamples) <= 1)
    /\ (simOut.bottom_diameter_um = 0) =>
         (simOut.taper_angle_deg = 9000 /\ simOut.taper_ratio = RInf)
    /\ (simOut.bottom_diameter_um # 0) =>
         /\ simOut.taper_angle_deg =
              AtanDeg(simOut.top_diameter_um - simOut.bottom_diameter_um,
                      2 * simIn.material_thickness)
         /\ simOut.taper_angle_deg < 9000
         /\ simOut.taper_ratio.k = "fin"

\* only the centre sample is drilled through, and the sentinel is returned
TaperSentinelWitness ==
  /\ SimDone
  /\ PenetratedSamples = {(NumSamples - 1) \div 2}
  /\ simOut.taper_angle_deg = 9000

----------------------------------------------------------------------------
(* Properties of calculate_goal_seeker_recipe                              *)

SeekDone == op \in {"seek", "rt_seek"}

\* n shots of the given depth per pulse reach the material thickness at the
\* beam centre (n * inf is inf for n >= 1 and NaN for n = 0)
ReachesThickness(n, depth, p) ==
  IF depth.k = "inf" THEN n >= 1
  ELSE n * depth.v >= p.material_thickness * LogScale

\* C5: for a positive depth per pulse the returned shot count is
\* n_min + overkill_shots, n_min being the least n with
\* n * depth_per_pulse >= material_thickness
ShotsAreMinimalPlusOverkill ==
  (SeekDone /\ RPositive(seek_max_depth_per_pulse(goalIn))) =>
    LET n_min == goalOut.number_of_shots - goalIn.overkill_shots
        depth == seek_max_depth_per_pulse(goalIn)
    IN  /\ ReachesThickness(n_min, depth, goalIn)
        /\ ~ReachesThickness(n_min - 1, depth, goalIn)

\* C6: when the depth per pulse is not positive the recipe has 0 shots,
\* whatever the overkill margin
NoDepthNoShots ==
  (SeekDone /\ ~RPositive(seek_max_depth_per_pulse(goalIn))) =>
    goalOut.number_of_shots = 0

\* a target of 0 on a real beam: required fluence equals the threshold,
\* depth 0, and an overkill margin that is not added
NoDepthNoShotsWitness ==
  /\ op = "seek"
  /\ goalIn.beam_diameter_um > 0
  /\ goalIn.overkill_shots > 0
  /\ ~GGt(required_peak_fluence(goalIn), goalIn.ablation_threshold_j_cm2)
  /\ goalOut.number_of_shots = 0

\* C7: for beam_diameter_um <= 0 the goal seeker returns the no-solution
\* recipe: 0 shots and pulse energy 0
NoBeamNoSolution ==
  (SeekDone /\ goalIn.beam_diameter_um <= 0) =>
    /\ goalOut.number_of_shots = 0
    /\ goalOut.pulse_energy_uJ = GZero

\* a negative beam diameter with a real target and an overkill margin
NoBeamNoSolutionWitness ==
  /\ op = "seek"
  /\ goalIn.beam_diameter_um < 0
  /\ goalIn.target_diameter_um > 0
  /\ goalIn.overkill_shots > 0
  /\ goalOut.number_of_shots = 0

\* C8: with beam_diameter_um = 0 the simulation returns peak fluence 0,
\* fluence 0 and depth 0 at every radial sample, and top and bottom
\* diameter 0
ZeroBeamAllZero ==
  (SimDone /\ simIn.beam_diameter_um = 0) =>
    /\ simOut.peak_fluence_j_cm2 = GZero
    /\ \A i \in Samples : simOut.fluence_profile[i] = GZero
    /\ \A i \in Samples : simOut.final_via_profile[i] = 0
    /\ simOut.max_depth_per_pulse = 0
    /\ simOut.top_diameter_um = 0
    /\ simOut.bottom_diameter_um = 0

\* C9: no returned value is NaN or infinite, the sentinel taper_ratio apart
ReturnedValuesFinite ==
  /\ SimDone =>
       /\ GFinite(simOut.peak_fluence_j_cm2)
       /\ \A i \in Samples : GFinite(simOut.fluence_profile[i])
  /\ SeekDone => GFinite(goalOut.pulse_energy_uJ)

----------------------------------------------------------------------------
(* Properties of the dose solver                                           *)

----------------------------------------------------------------------------
(* Properties of the dose explorer table                                   *)

\* C11: the table has exactly one row per integer N of
\* min_shots .. max_shots; in the row of N the peak fluence times N is the
\* target dose, and the required average power is
\* (peak fluence * pi * beam_radius_cm^2 / 2) * repetition rate (the rate
\* in Hz, the power in W, shown in mW)
DoseTableRows ==
  op = "dose" =>
    LET df == doseOut.dataframe
        rate_hz == GMul(doseIn.rep_rate_khz, GOfInt(1000))
    IN  /\ Len(df) = doseIn.max_shots - doseIn.min_shots + 1
        /\ \A i \in DOMAIN df :
             /\ df[i].shots = doseIn.min_shots + i - 1
             /\ GMul(df[i].peak_fluence, GOfInt(df[i].shots)) = doseIn.target_dose
             /\ df[i].power_mW =
                  GMul(GMul(GDiv(GMul(GMul(df[i].peak_fluence, GPi),
                                      SquareCm(doseIn.beam_diameter_um \div 2)),
                                 GOfInt(2)),
                            rate_hz),
                       GOfInt(1000))

\* a table of three rows or more for a positive dose, its last row within
\* the available power
DoseTableRowsWitness ==
  /\ op = "dose"
  /\ GGt(doseIn.target_dose, GZero)
  /\ Len(doseOut.dataframe) >= 3
  /\ doseOut.dataframe[Len(doseOut.dataframe)].shots = doseIn.max_shots
  /\ doseOut.dataframe[Len(doseOut.dataframe)].achievable

----------------------------------------------------------------------------
(* Properties of a simulation below the ablation threshold                 *)

\* C14: when the peak fluence does not exceed the ablation threshold the
\* simulation returns top diameter 0, depth per pulse 0 and bottom
\* diameter 0, for both beam profiles and every shot count
NoAblationBelowThreshold ==
  (SimDone /\ ~GGt(simOut.peak_fluence_j_cm2, simIn.ablation_threshold_j_cm2)) =>
    /\ simOut.top_diameter_um = 0
    /\ simOut.max_depth_per_pulse = 0
    /\ simOut.bottom_diameter_um = 0

\* a Top-Hat beam of positive but insufficient fluence, fired several times
NoAblationWitness ==
  /\ op = "more_shots"
  /\ simIn.beam_profile = "Top-Hat"
  /\ simIn.number_of_shots > 2
  /\ simOut.peak_fluence_j_cm2.k = "pos"
  /\ ~GGt(simOut.peak_fluence_j_cm2, simIn.ablation_threshold_j_cm2)
  /\ simOut.top_diameter_um = 0
  /\ simOut.max_depth_per_pulse = 0

----------------------------------------------------------------------------
(* Properties of the sensitivity analyzer                                  *)

\* C15: at every sample of the sweep the process window lies in
\* [0, target diameter] (the bottom diameter in [0, target diameter]) and
\* the taper angle in [0, 90]
SweepGeometryInRange ==
  op \in {"tradeoffs", "analyzer"} =>
    \A i \in Spots :
      /\ tradeoff_data.process_windows[i].k = "fin"
      /\ tradeoff_data.process_windows[i].v >= 0
      /\ tradeoff_data.process_windows[i].v <= fixed_params.target_diameter_um
      /\ tradeoff_data.taper_angles[i] >= 0
      /\ tradeoff_data.taper_angles[i] <= 9000

\* the same ranges hold on the spot range of the page, 0.8 to 2.0 times the
\* target diameter, where the exponential stays finite
SweepGeometryInRangeOnPage ==
  op = "analyzer" =>
    \A i \in Spots :
      /\ tradeoff_data.process_windows[i].k = "fin"
      /\ tradeoff_data.process_windows[i].v >= 0
      /\ tradeoff_data.process_windows[i].v <= fixed_params.target_diameter_um
      /\ tradeoff_data.taper_angles[i] >= 0
      /\ tradeoff_data.taper_angles[i] <= 9000

\* C16: the verdict follows the priority order: REJECT when the taper is
\* above 13 degrees, whatever the spot; else HIGH RISK when the selected
\* spot is below 0.98 times the target; else IDEAL when taper <= 10 and
\* fluence ratio <= 10; else STABLE BUT INEFFICIENT when taper <= 10; else
\* GOOD COMPROMISE. One verdict is shown on every run.
VerdictPriority ==
  op = "analyzer" =>
    LET taper == live.live_taper
        small == analyzer.selected_spot * Centi < analyzer.target_diameter_um * 98
        cheap == GLe(live.live_fluence_ratio, GOfInt(10))
    IN  /\ verdict \in {"REJECT", "HIGH RISK", "IDEAL PROCESS",
                        "STABLE BUT INEFFICIENT", "GOOD COMPROMISE"}
        /\ (verdict = "REJECT") <=> (taper > 1300)
        /\ (verdict = "HIGH RISK") <=> (taper <= 1300 /\ small)
        /\ (verdict = "IDEAL PROCESS") <=>
             (taper <= 1000 /\ ~small /\ cheap)
        /\ (verdict = "STABLE BUT INEFFICIENT") <=>
             (taper <= 1000 /\ ~small /\ ~cheap)
        /\ (verdict = "GOOD COMPROMISE") <=>
             (taper > 1000 /\ taper <= 1300 /\ ~small)

\* a taper above 13 degrees at a spot below 0.98 times the target: REJECT
VerdictPriorityWitness ==
  /\ op = "analyzer"
  /\ live.live_taper > 1300
  /\ analyzer.selected_spot * Centi < analyzer.target_diameter_um * 98
  /\ verdict = "REJECT"


----------------------------------------------------------------------------
(* Properties of the simulator page and the page router                    *)

\* C17: switch_to_simulator becomes True only by a click on "Load this
\* Recipe" in render_outputs; the step that follows is the next run of
\* render_inputs, which leaves simulator_mode at "Interactive Simulator" and
\* the flag at False; whenever render_inputs has returned the flag is False,
\* so one load is consumed by one run and no later run sees it.
SwitchFlagConsumed ==
  [][ /\ session_state.switch_to_simulator =>
           /\ pc' = "inputs_done"
           /\ ~session_state'.switch_to_simulator
           /\ session_state'.simulator_mode = "Interactive Simulator"
      /\ session_state'.switch_to_simulator =>
           /\ ~session_state.switch_to_simulator
           /\ pc = "inputs_done"
           /\ event = "load"
      /\ pc' = "inputs_done" => ~session_state'.switch_to_simulator ]_vars

\* render_inputs has returned in the run that follows a load
SwitchFlagConsumedWitness ==
  /\ pc = "inputs_done"
  /\ event = "rerun_load"
  /\ session_state.sim_params # None
  /\ session_state.simulator_mode = "Interactive Simulator"
  /\ ~session_state.switch_to_simulator

\* C18: when a recipe has just been loaded, the pulse energy and the number
\* of shots written to sim_params are those calculate_goal_seeker_recipe
\* yields for the beam diameter, ablation threshold, penetration depth and
\* material thickness written with them (and the target and overkill shots
\* of the inputs).
LoadedRecipeMatchesInputs ==
  session_state.switch_to_simulator =>
    LET sp == session_state.sim_params
        recipe == calculate_goal_seeker_recipe(
                    [goal_widgets EXCEPT
                       !.beam_diameter_um = sp.beam_diameter,
                       !.ablation_threshold_j_cm2 = sp.ablation_threshold,
                       !.alpha_inv = sp.alpha_inv,
                       !.material_thickness = sp.material_thickness])
    IN  /\ sp.pulse_energy = recipe.pulse_energy_uJ
        /\ sp.number_of_shots = recipe.number_of_shots
        /\ session_state.master = sp


\* the ranges of the simulator's input widgets
InSimulatorWidgetRanges(m) ==
  /\ GLe(GOfHundredths(1), m.pulse_energy) /\ GLe(m.pulse_energy, GOfInt(20))
  /\ m.beam_diameter >= 100 /\ m.beam_diameter <= 5000
  /\ GLe(GOfHundredths(1), m.ablation_threshold) /\ GLe(m.ablation_threshold, GOfInt(5))
  /\ m.alpha_inv >= 1 /\ m.alpha_inv <= 500
  /\ m.number_of_shots >= 1 /\ m.number_of_shots <= 300
  /\ m.material_thickness >= 100 /\ m.material_thickness <= 20000

\* C19: every master simulator value lies within the range of the simulator
\* input widget it is bound to: pulse_energy in [0.01, 20], beam_diameter in
\* [1, 50], ablation_threshold in [0.01, 5], alpha_inv in [0.01, 5],
\* number_of_shots in [1, 300], material_thickness in [1, 200].
MasterValuesInWidgetRanges ==
  session_state.master # None => InSimulatorWidgetRanges(session_state.master)


\* the pages of the application and the module each is registered with
RegisteredPages ==
  {<<"Home", "home">>,
   <<"Scientific Reference", "documentation">>,
   <<"Material Analyzer", "material_analyzer">>,
   <<"Process Recommender", "process_recommender">>,
   <<"Microvia Process Simulator", "beam_profile_visualizer">>,
   <<"Report Generator", "report_generator">>,
   <<"Liu Plot Analyzer", "liu_plot_analyzer">>,
   <<"Thermal Effects Calculator", "thermal_effects_calculator">>,
   <<"Dose Target Seeker", "dose_target_seeker">>,
   <<"Fluence (Energy Density)", "fluence_calculator">>,
   <<"Pulse Energy", "pulse_energy_calculator">>,
   <<"Mask Finder", "mask_finder">>}

\* C20: app_mode is "Home" in the first run; whenever a run has rendered a
\* page, app_mode names a registered page and the module rendered is the one
\* registered for app_mode; and a run that starts with a registered app_mode
\* renders a page.
RouterRendersRegisteredPage ==
  [][ /\ session_state.app_mode = "absent" => session_state'.app_mode = "Home"
      /\ pc = "rerun" /\ session_state.app_mode # "absent" =>
           \E r \in RegisteredPages : r[1] = session_state.app_mode
      /\ pc' \in {"idle", "inputs_done"} =>
           /\ <<session_state'.app_mode, dispatched'.module>> \in RegisteredPages
           /\ dispatched'.page = session_state'.app_mode
      /\ pc = "rerun" => pc' \in {"idle", "inputs_done"} ]_vars

\* the report generator is rendered after a click on the report button
RouterRendersRegisteredPageWitness ==
  /\ pc = "idle"
  /\ event = "rerun_report"
  /\ session_state.app_mode = "Report Generator"
  /\ dispatched = [page |-> "Report Generator", module |-> "report_generator"]


\* C21: a run that starts with an app_mode that names no registered page
\* renders nothing (the page and the canvas shown stay as they were), sets
\* app_mode to "Home" and reruns; the run after a reset renders the Home
\* page and ends, so that every such run leads to the Home page rendered.
UnregisteredModeReset ==
  /\ [][ /\ pc = "rerun" /\ selected_module(session_state.app_mode) = "None"
            /\ session_state.app_mode # "absent" =>
              /\ session_state'.app_mode = "Home"
              /\ pc' = "rerun" /\ event' = "reset"
              /\ UNCHANGED <<dispatched, canvas>>
         /\ pc = "rerun" /\ event = "reset" =>
              /\ pc' = "idle"
              /\ session_state'.app_mode = "Home"
              /\ dispatched' = [page |-> "Home", module |-> "home"] ]_vars
  /\ (pc = "rerun" /\ session_state.app_mode \in UnregisteredModes)
       ~> (pc = "idle" /\ event = "reset" /\ dispatched.page = "Home")

\* the Home page has been rendered by the run that follows a reset
UnregisteredModeResetWitness ==
  /\ pc = "idle"
  /\ event = "reset"
  /\ session_state.app_mode = "Home"
  /\ dispatched = [page |-> "Home", module |-> "home"]


\* C22: no recipe is stored while simulator_mode is "Interactive Simulator"
\* (render_inputs deletes goal_seeker_results in that mode); a recipe is
\* stored, and the canvas shows one where it showed none, only through a
\* click on "Generate Recipe" in the goal seeker, so that after a return
\* from the simulator the canvas shows the hint instead of a recipe; and a
\* stored recipe is still stored after every step that leaves the mode at
\* "Recipe Goal Seeker".
GoalSeekerResultsDeleted ==
  [][ /\ session_state'.simulator_mode = "Interactive Simulator" =>
           session_state'.goal_seeker_results = None
      /\ (session_state.goal_seeker_results = None
            /\ session_state'.goal_seeker_results # None) =>
           /\ pc = "inputs_done" /\ event = "generate"
           /\ session_state.simulator_mode = "Recipe Goal Seeker"
           /\ session_state'.goal_seeker_results =
                calculate_goal_seeker_recipe(goal_widgets)
      /\ (session_state.goal_seeker_results # None
            /\ session_state'.simulator_mode = "Recipe Goal Seeker") =>
           session_state'.goal_seeker_results # None
      /\ (pc' = "idle" /\ canvas' = "recipe") =>
           session_state'.goal_seeker_results # None
      /\ (pc = "inputs_done" /\ pc' = "idle"
            /\ session_state'.simulator_mode = "Recipe Goal Seeker"
            /\ session_state'.goal_seeker_results = None) =>
           canvas' = "info" ]_vars

\* the goal seeker shows no recipe after a recipe was generated and loaded
\* into the simulator
GoalSeekerResultsDeletedWitness ==
  /\ pc = "idle"
  /\ canvas = "info"
  /\ session_state.simulator_mode = "Recipe Goal Seeker"
  /\ session_state.sim_params # None
  /\ session_state.goal_seeker_results = None


----------------------------------------------------------------------------
(* Properties of the dose explorer's page                                  *)

\* C23: a click on "Explore Possible Recipes" with min_shots >= max_shots
\* reports an error, displays no results in that run and leaves the stored
\* results as they were; a click with min_shots < max_shots stores and
\* displays a table of the current inputs: one row per shot count of
\* min_shots .. max_shots, each with fluence * shots = the target dose.
ExploreErrorKeepsStoredResults ==
  [][ (op = "dose_pending" /\ op' # "dose_pending") =>
        IF doseIn.min_shots >= doseIn.max_shots
        THEN /\ op' = "dose_error"
             /\ doseOut' = doseOut
             /\ doseShown' = None
        ELSE /\ op' = "dose"
             /\ doseShown' = doseOut'
             /\ LET df == doseOut'.dataframe
                IN  /\ Len(df) = doseIn.max_shots - doseIn.min_shots + 1
                    /\ \A i \in DOMAIN df :
                         /\ df[i].shots = doseIn.min_shots + i - 1
                         /\ GMul(df[i].peak_fluence, GOfInt(df[i].shots))
                              = doseIn.target_dose ]_vars

\* an error was reported while results of an earlier click, for another
\* shot range, are stored
ExploreErrorKeepsStoredResultsWitness ==
  /\ op = "dose_error"
  /\ doseIn.min_shots >= doseIn.max_shots
  /\ doseShown = None
  /\ doseOut # None
  /\ doseOut.dataframe[1].shots # doseIn.min_shots


====
